---- MODULE Spec2Model ----
(***************************************************************************)
(* The liquidity / price accounting engine of the Balancer V2 subgraph:    *)
(* the entity store, the pool factory handlers (poolFactory.ts), the vault *)
(* handlers for balance changes and swaps (part_001) and the pricing       *)
(* routines (part_000).                                                    *)
(***************************************************************************)
EXTENDS Integers, Sequences, FiniteSets, TLC

(***************************************************************************)
(* Bounds of the model.                                                    *)
(***************************************************************************)
\* number of PoolCreated events delivered
MaxCreates == 2
\* number of vault events (PoolBalanceChanged, Swap) delivered
MaxEvents == 2
\* number of Swap events delivered when only the swaps of one pool are
MaxBatchSwaps == 3
\* number of PoolBalanceChanged events delivered after a PoolToken was lost
MaxFaultEvents == 2
\* number of vault events delivered to two pools that share a pair of tokens
MaxPriceEvents == 3
\* number of PoolCreated events where one may be repeated for a known pool
MaxCreateEvents == 3
\* number of vault events delivered between such PoolCreated events
MaxRepeatEvents == 1
\* number of swaps delivered to a pool with and a pool without pricing assets
MaxLegEvents == 2

(***************************************************************************)
(* BigDecimal.  A decimal is represented by the integer number of 1/UNIT   *)
(* it holds; plus and minus are exact, times and div keep the digits that  *)
(* UNIT resolves (the runtime keeps 34 significant digits).                *)
(***************************************************************************)
UNIT == 100

ZERO_BD == 0

plus(a, b) == a + b

minus(a, b) == a - b

times(a, b) == (a * b) \div UNIT

div(a, b) == (a * UNIT) \div b

toBigDecimal(n) == n * UNIT

\* scaleDown(num, decimals) = num.toBigDecimal().div(10^decimals)
scaleDown(num, decimals) == div(toBigDecimal(num), toBigDecimal(10 ^ decimals))

\* tokenToDecimal(amount, decimals) = amount.toBigDecimal().div(10^decimals)
tokenToDecimal(amount, decimals) == div(toBigDecimal(amount), toBigDecimal(10 ^ decimals))

\* a value of type T | null: <<>> is null, <<v>> is the value v
Null == <<>>

Some(v) == <<v>>

IsSet(o) == o # Null

\* a || b on nullable references
OrElse(a, b) == IF IsSet(a) THEN a ELSE b

(***************************************************************************)
(* Addresses: tokens, pools and the allow-lists of constants.ts.           *)
(***************************************************************************)
WETH == "WETH"

USDC == "USDC"

DAI == "DAI"

BAL == "BAL"
MKR == "MKR"

Tokens == {WETH, USDC, DAI, BAL, MKR}

PRICING_ASSETS == <<WETH, USDC, DAI>>

USD_STABLE_ASSETS == <<USDC, DAI>>

\* decimals of the ERC20 token (getToken(address).decimals)
TokenDecimals(t) == IF t = USDC THEN 0 ELSE 1

\* the pools of the indexed factories
PoolIds == {"p1", "p2", "p3"}

\* a pool of the vault that no indexed factory created
UnindexedPool == "p0"

\* what the Vault's getPoolTokens(poolId) returns when it does not revert
PricePoolIds == {"p4", "p5"}

\* a pool with pricing assets and a pool without
LegPoolIds == {"p1", "p6"}

VaultPoolTokens(p) ==
  CASE p = "p1" -> <<WETH, USDC, BAL>>
    [] p = "p2" -> <<WETH, DAI>>
    [] p = "p3" -> <<WETH>>
    [] p = "p6" -> <<BAL, MKR>>
    [] OTHER    -> <<USDC, WETH>>

\* what the pool contract's getSwapFeePercentage() returns, in 1/10
PoolSwapFeePercentage(p) == IF p = "p1" THEN 5 ELSE 1

Users == {"u1"}

(***************************************************************************)
(* The entity store: one table per entity type, a function from the ids    *)
(* that exist to the records saved under them.                             *)
(***************************************************************************)
EmptyTable == <<>>

Exists(table, id) == id \in DOMAIN table

Remove(table, id) == [k \in DOMAIN table \ {id} |-> table[k]]

Save(table, id, rec) == (id :> rec) @@ table

EmptyStore ==
  [pool         |-> EmptyTable,
   poolToken    |-> EmptyTable,
   tokenPrice   |-> EmptyTable,
   latestPrice  |-> EmptyTable,
   phl          |-> EmptyTable,
   balancer     |-> EmptyTable,
   swap         |-> EmptyTable,
   batchSwap    |-> EmptyTable,
   joinExit     |-> EmptyTable,
   user         |-> EmptyTable,
   tradePair    |-> EmptyTable,
   investment   |-> EmptyTable,
   tradePairPrice |-> EmptyTable,
   tradePairSnapshot |-> EmptyTable,
   poolSnapshot |-> {}]

getPoolTokenId(poolId, tokenAddress) == <<poolId, tokenAddress>>

getTokenPriceId(poolId, tokenAddress, pricingAsset, block) ==
  <<poolId, tokenAddress, pricingAsset, block>>

getLatestPriceId(tokenAddress, pricingAsset) == <<tokenAddress, pricingAsset>>

getPoolHistoricalLiquidityId(poolId, tokenAddress, block) ==
  <<poolId, tokenAddress, block>>

(***************************************************************************)
(* Pricing (part_000).                                                     *)
(***************************************************************************)
isPricingAsset(asset) ==
  \E i \in 1..Len(PRICING_ASSETS) : PRICING_ASSETS[i] = asset

isUSDStable(asset) ==
  \E i \in 1..Len(USD_STABLE_ASSETS) : USD_STABLE_ASSETS[i] = asset

\* the LatestPrice row that converts pricingAsset to USD: USDC first, then DAI
pricingAssetInUSD(s, pricingAsset) ==
  IF Exists(s.latestPrice, getLatestPriceId(pricingAsset, USDC))
    THEN Some(s.latestPrice[getLatestPriceId(pricingAsset, USDC)])
    ELSE IF Exists(s.latestPrice, getLatestPriceId(pricingAsset, DAI))
      THEN Some(s.latestPrice[getLatestPriceId(pricingAsset, DAI)])
      ELSE Null

\* faulty variant: a LatestPrice row to a USD anchor is used even for a
\* USD-stable pricing asset
convertedLiquidityByRoute(s, poolValue, pricingAsset) ==
  IF IsSet(pricingAssetInUSD(s, pricingAsset))
    THEN Some(times(poolValue, pricingAssetInUSD(s, pricingAsset)[1].price))
    ELSE IF isUSDStable(pricingAsset) THEN Some(poolValue) ELSE Null

\* the local newPoolLiquidity before the return statement
convertedLiquidity(s, poolValue, pricingAsset) ==
  IF isUSDStable(pricingAsset)
    THEN Some(poolValue)
    ELSE IF IsSet(pricingAssetInUSD(s, pricingAsset))
      THEN Some(times(poolValue, pricingAssetInUSD(s, pricingAsset)[1].price))
      ELSE Null

\* return newPoolLiquidity || BigDecimal.fromString('0')
poolLiquidityInUSD(s, poolValue, pricingAsset) ==
  OrElse(convertedLiquidity(s, poolValue, pricingAsset), Some(ZERO_BD))

\* faulty variant: the LatestPrice row is preferred to this block's TokenPrice
resolvedPriceLatestFirst(tokenPrices, latestPrices, tokenPriceId, latestPriceId) ==
  IF Exists(latestPrices, latestPriceId)
    THEN Some(latestPrices[latestPriceId].price)
    ELSE IF Exists(tokenPrices, tokenPriceId)
      THEN Some(tokenPrices[tokenPriceId].price)
      ELSE Null

\* the price chosen for a token of the pool that is not the pricing asset
resolvedPrice(tokenPrices, latestPrices, tokenPriceId, latestPriceId) ==
  IF Exists(tokenPrices, tokenPriceId)
    THEN Some(tokenPrices[tokenPriceId].price)
    ELSE IF Exists(latestPrices, latestPriceId)
      THEN Some(latestPrices[latestPriceId].price)
      ELSE Null

\* faulty variant: a row used as fallback is stamped with the current block
refreshedLatestPriceOrStamped(tokenPrices, latestPrices, tokenPriceId, latestPriceId, tokenAddress, pricingAsset, block, poolId) ==
  IF Exists(tokenPrices, tokenPriceId)
    THEN Save(latestPrices, latestPriceId,
              [asset        |-> tokenAddress,
               pricingAsset |-> pricingAsset,
               price        |-> tokenPrices[tokenPriceId].price,
               block        |-> block,
               poolId       |-> poolId])
    ELSE IF Exists(latestPrices, latestPriceId)
      THEN [latestPrices EXCEPT ![latestPriceId].block = block,
                                ![latestPriceId].poolId = poolId]
      ELSE latestPrices

\* the LatestPrice table after the "possibly update latest price" block
refreshedLatestPrice(tokenPrices, latestPrices, tokenPriceId, latestPriceId, tokenAddress, pricingAsset, block, poolId) ==
  IF Exists(tokenPrices, tokenPriceId)
    THEN Save(latestPrices, latestPriceId,
              [asset        |-> tokenAddress,
               pricingAsset |-> pricingAsset,
               price        |-> tokenPrices[tokenPriceId].price,
               block        |-> block,
               poolId       |-> poolId])
    ELSE latestPrices

\* what one token adds to poolValue
\* faulty variant: the token's quantity is added whatever its price
tokenValueUnpriced(price, poolTokenQuantity) ==
  IF IsSet(price) THEN poolTokenQuantity ELSE ZERO_BD

tokenValue(price, poolTokenQuantity) ==
  IF IsSet(price) THEN times(price[1], poolTokenQuantity) ELSE ZERO_BD

\* the loop over tokensList from index j on; acc = [latestPrice, poolValue]
RECURSIVE poolValueLoop(_, _, _, _, _, _)
poolValueLoop(s, poolId, block, pricingAsset, j, acc) ==
  LET tokensList == s.pool[poolId].tokensList IN
  IF j > Len(tokensList) THEN acc
  ELSE
    LET tokenAddress == tokensList[j]
        poolToken == s.poolToken[getPoolTokenId(poolId, tokenAddress)]
        tokenPriceId == getTokenPriceId(poolId, tokenAddress, pricingAsset, block)
        latestPriceId == getLatestPriceId(tokenAddress, pricingAsset)
        price == resolvedPrice(s.tokenPrice, acc.latestPrice, tokenPriceId, latestPriceId)
    IN IF tokenAddress = pricingAsset
         THEN poolValueLoop(s, poolId, block, pricingAsset, j + 1,
                [acc EXCEPT !.poolValue = plus(@, poolToken.balance)])
         ELSE poolValueLoop(s, poolId, block, pricingAsset, j + 1,
                [latestPrice |-> refreshedLatestPrice(s.tokenPrice, acc.latestPrice,
                                   tokenPriceId, latestPriceId, tokenAddress,
                                   pricingAsset, block, poolId),
                 poolValue   |-> plus(acc.poolValue, tokenValue(price, poolToken.balance))])

\* faulty variant: the vault gains the new liquidity, not the change
liquidityChangeNotNetted(newPoolLiquidity, oldPoolLiquidity) == newPoolLiquidity

liquidityChange(newPoolLiquidity, oldPoolLiquidity) ==
  minus(newPoolLiquidity, oldPoolLiquidity)

\* the guarded block that stores the new liquidity in the pool and the vault
storeLiquidity(s, poolId, newPoolLiquidity, oldPoolLiquidity) ==
  IF IsSet(newPoolLiquidity) /\ IsSet(oldPoolLiquidity)
    THEN [s EXCEPT
            !.balancer["2"].totalLiquidity =
               plus(@, liquidityChange(newPoolLiquidity[1], oldPoolLiquidity[1])),
            !.pool[poolId].liquidity = newPoolLiquidity[1]]
    ELSE s

\* a context is the store and the log of the updatePoolLiquidity calls that
\* reached the valuation loop while the current event is handled
UplCall(poolId, block, pricingAsset, before, after) ==
  [poolId |-> poolId, block |-> block, pricingAsset |-> pricingAsset,
   before |-> before, after |-> after]

\* faulty variant: a pool of fewer than 2 tokens is valued too
updatePoolLiquidityAnyCount(c, poolId, block, pricingAsset) ==
  IF ~Exists(c.s.pool, poolId) THEN c
  ELSE IF Len(c.s.pool[poolId].tokensList) = 0 THEN c
  ELSE
    LET s == c.s
        r == poolValueLoop(s, poolId, block, pricingAsset, 1,
               [latestPrice |-> s.latestPrice, poolValue |-> ZERO_BD])
        s1 == [s EXCEPT
                 !.latestPrice = r.latestPrice,
                 !.phl = Save(@, getPoolHistoricalLiquidityId(poolId, pricingAsset, block),
                              [poolId |-> poolId, pricingAsset |-> pricingAsset,
                               block |-> block, poolLiquidity |-> r.poolValue])]
        oldPoolLiquidity == Some(s.pool[poolId].liquidity)
        newPoolLiquidity == poolLiquidityInUSD(s1, r.poolValue, pricingAsset)
        s2 == storeLiquidity(s1, poolId, newPoolLiquidity, oldPoolLiquidity)
    IN [s |-> s2,
        calls |-> Append(c.calls, UplCall(poolId, block, pricingAsset, s, s2))]

updatePoolLiquidity(c, poolId, block, pricingAsset) ==
  IF ~Exists(c.s.pool, poolId) THEN c
  ELSE IF c.s.pool[poolId].tokensCount < 2 THEN c
  ELSE IF Len(c.s.pool[poolId].tokensList) = 0 THEN c
  ELSE
    LET s == c.s
        r == poolValueLoop(s, poolId, block, pricingAsset, 1,
               [latestPrice |-> s.latestPrice, poolValue |-> ZERO_BD])
        s1 == [s EXCEPT
                 !.latestPrice = r.latestPrice,
                 !.phl = Save(@, getPoolHistoricalLiquidityId(poolId, pricingAsset, block),
                              [poolId |-> poolId, pricingAsset |-> pricingAsset,
                               block |-> block, poolLiquidity |-> r.poolValue])]
        oldPoolLiquidity == Some(s.pool[poolId].liquidity)
        newPoolLiquidity == poolLiquidityInUSD(s1, r.poolValue, pricingAsset)
        s2 == storeLiquidity(s1, poolId, newPoolLiquidity, oldPoolLiquidity)
    IN [s |-> s2,
        calls |-> Append(c.calls, UplCall(poolId, block, pricingAsset, s, s2))]

\* updatePoolLiquidity is declared void: the callers' `success` is never truthy
updatePoolLiquiditySuccess == FALSE

(***************************************************************************)
(* Pool factory (poolFactory.ts).                                          *)
(***************************************************************************)
newPoolEntity ==
  [tokensList      |-> <<>>,
   tokensCount     |-> 0,
   liquidity       |-> ZERO_BD,
   swapsCount      |-> 0,
   totalSwapVolume |-> ZERO_BD,
   totalSwapFee    |-> ZERO_BD,
   swapFee         |-> ZERO_BD]

findOrInitializeVault(s) ==
  IF Exists(s.balancer, "2") THEN s.balancer["2"]
  ELSE [poolCount       |-> 0,
        totalLiquidity  |-> ZERO_BD,
        totalSwapVolume |-> ZERO_BD,
        totalSwapFee    |-> ZERO_BD,
        totalSwapCount  |-> 0]

\* faulty variant: the new pool is saved and the vault is not
handleNewPoolWithoutVault(s, poolId, swapFee) ==
  IF ~Exists(s.pool, poolId)
    THEN [s EXCEPT
            !.pool = Save(@, poolId, [newPoolEntity EXCEPT !.swapFee = scaleDown(swapFee, 1)])]
    ELSE s

\* faulty variant: the vault counts a pool at every PoolCreated event
handleNewPoolCountingEvents(s, poolId, swapFee) ==
  [s EXCEPT
     !.pool = IF Exists(s.pool, poolId) THEN @
              ELSE Save(@, poolId, [newPoolEntity EXCEPT !.swapFee = scaleDown(swapFee, 1)]),
     !.balancer = Save(@, "2", [findOrInitializeVault(s) EXCEPT !.poolCount = @ + 1])]

\* the fee is an 18-digit fixed-point number in the contract; here it has
\* one fractional digit
handleNewPool(s, poolId, swapFee) ==
  IF ~Exists(s.pool, poolId)
    THEN [s EXCEPT
            !.pool = Save(@, poolId, [newPoolEntity EXCEPT !.swapFee = scaleDown(swapFee, 1)]),
            !.balancer = Save(@, "2",
                           [findOrInitializeVault(s) EXCEPT !.poolCount = @ + 1])]
    ELSE s

createPoolTokenEntity(poolTokens, poolId, tokenAddress) ==
  Save(poolTokens, getPoolTokenId(poolId, tokenAddress),
       [balance |-> ZERO_BD, invested |-> ZERO_BD])

RECURSIVE createPoolTokenEntities(_, _, _, _)
createPoolTokenEntities(poolTokens, poolId, tokens, i) ==
  IF i > Len(tokens) THEN poolTokens
  ELSE createPoolTokenEntities(createPoolTokenEntity(poolTokens, poolId, tokens[i]),
                               poolId, tokens, i + 1)

\* createWeightedLikePool, createStableLikePool and the other create*Pool
\* handlers; reverted is the outcome of try_getPoolTokens
createPool(s, poolId, reverted) ==
  LET s1 == handleNewPool(s, poolId, PoolSwapFeePercentage(poolId))
      tokens == VaultPoolTokens(poolId)
  IN IF ~reverted
       THEN [s1 EXCEPT
               !.pool[poolId].tokensList = tokens,
               !.pool[poolId].tokensCount = Len(tokens),
               !.poolToken = createPoolTokenEntities(@, poolId, tokens, 1)]
       ELSE s1

(***************************************************************************)
(* Deposits and withdrawals (part_001).                                    *)
(***************************************************************************)
\* a handler returns the store it leaves, the updatePoolLiquidity calls it
\* made and how it ended
Result(s, calls, outcome) == [s |-> s, calls |-> calls, outcome |-> outcome]

createPoolSnapshot(s, poolId, timestamp) ==
  [s EXCEPT !.poolSnapshot = @ \cup {<<poolId, timestamp>>}]

RECURSIVE sumDeltas(_, _)
sumDeltas(amounts, i) ==
  IF i > Len(amounts) THEN 0 ELSE amounts[i] + sumDeltas(amounts, i + 1)

\* faulty variant: a zero net sum counts as a join
isJoinOrZero(amounts) == sumDeltas(amounts, 1) >= 0

\* total.gt(ZERO)
isJoin(amounts) == sumDeltas(amounts, 1) > 0

\* new Array(amounts.length), filled for the indices of tokenAddresses
joinAmounts(tokenAddresses, amounts) ==
  [i \in 1..Len(amounts) |->
     IF i <= Len(tokenAddresses)
       THEN Some(scaleDown(amounts[i], TokenDecimals(tokenAddresses[i])))
       ELSE Null]

\* faulty variant: the amounts of an exit keep their sign
exitAmountsSigned(tokenAddresses, amounts) ==
  [i \in 1..Len(amounts) |->
     IF i <= Len(tokenAddresses)
       THEN Some(scaleDown(amounts[i], TokenDecimals(tokenAddresses[i])))
       ELSE Null]

exitAmounts(tokenAddresses, amounts) ==
  [i \in 1..Len(amounts) |->
     IF i <= Len(tokenAddresses)
       THEN Some(scaleDown(-amounts[i], TokenDecimals(tokenAddresses[i])))
       ELSE Null]

joinedBalance(balance, amount, decimals) ==
  plus(balance, tokenToDecimal(amount, decimals))

\* faulty variant: the negative delta is subtracted as it is
exitedBalanceSigned(balance, amount, decimals) ==
  minus(balance, tokenToDecimal(amount, decimals))

exitedBalance(balance, amount, decimals) ==
  minus(balance, tokenToDecimal(-amount, decimals))

\* the loop over the pool's tokens that moves the balances; acc = [ok, poolToken],
\* ok is FALSE once 'poolToken not found' is thrown
RECURSIVE balanceLoop(_, _, _, _, _, _)
balanceLoop(poolId, tokenAddresses, amounts, joined, i, acc) ==
  IF i > Len(tokenAddresses) \/ ~acc.ok THEN acc
  ELSE
    LET tokenAddress == tokenAddresses[i]
        id == getPoolTokenId(poolId, tokenAddress)
    IN IF ~Exists(acc.poolToken, id)
         THEN [acc EXCEPT !.ok = FALSE]
         ELSE balanceLoop(poolId, tokenAddresses, amounts, joined, i + 1,
                [acc EXCEPT !.poolToken[id].balance =
                   IF joined
                     THEN joinedBalance(@, amounts[i], TokenDecimals(tokenAddress))
                     ELSE exitedBalance(@, amounts[i], TokenDecimals(tokenAddress))])

\* the loop that tries the pricing assets of the pool; stop is `success`
RECURSIVE liquidityLoop(_, _, _, _, _)
liquidityLoop(c, poolId, block, tokenAddresses, i) ==
  IF i > Len(tokenAddresses) THEN c
  ELSE IF isPricingAsset(tokenAddresses[i])
    THEN LET c1 == updatePoolLiquidity(c, poolId, block, tokenAddresses[i])
         IN IF updatePoolLiquiditySuccess
              THEN c1
              ELSE liquidityLoop(c1, poolId, block, tokenAddresses, i + 1)
    ELSE liquidityLoop(c, poolId, block, tokenAddresses, i + 1)

JoinExitRecord(type, amounts, ev) ==
  [type |-> type, amounts |-> amounts, pool |-> ev.poolId, user |-> ev.from,
   timestamp |-> ev.block, tx |-> ev.tx]

\* faulty variant: the writes made before 'poolToken not found' is thrown
\* are kept
handlePoolJoinedOrExitedKeepingWrites(s, ev, joined) ==
  IF ~Exists(s.pool, ev.poolId) THEN Result(s, <<>>, "nopool")
  ELSE
    LET tokenAddresses == s.pool[ev.poolId].tokensList
        rec == IF joined
                 THEN JoinExitRecord("Join", joinAmounts(tokenAddresses, ev.deltas), ev)
                 ELSE JoinExitRecord("Exit", exitAmounts(tokenAddresses, ev.deltas), ev)
        s1 == [s EXCEPT !.joinExit = Save(@, <<ev.tx, ev.logIndex>>, rec)]
        b == balanceLoop(ev.poolId, tokenAddresses, ev.deltas, joined, 1,
                         [ok |-> TRUE, poolToken |-> s1.poolToken])
    IN Result([s1 EXCEPT !.poolToken = b.poolToken], <<>>,
              IF ~b.ok THEN "fatal" ELSE IF joined THEN "join" ELSE "exit")

\* handlePoolJoined (joined) and handlePoolExited (~joined)
handlePoolJoinedOrExited(s, ev, joined) ==
  IF ~Exists(s.pool, ev.poolId) THEN Result(s, <<>>, "nopool")
  ELSE
    LET poolId == ev.poolId
        tokenAddresses == s.pool[poolId].tokensList
        id == <<ev.tx, ev.logIndex>>
        rec == IF joined
                 THEN JoinExitRecord("Join", joinAmounts(tokenAddresses, ev.deltas), ev)
                 ELSE JoinExitRecord("Exit", exitAmounts(tokenAddresses, ev.deltas), ev)
        s1 == [s EXCEPT !.joinExit = Save(@, id, rec)]
        b == balanceLoop(poolId, tokenAddresses, ev.deltas, joined, 1,
                         [ok |-> TRUE, poolToken |-> s1.poolToken])
        s2 == [s1 EXCEPT !.poolToken = b.poolToken]
        c == liquidityLoop([s |-> s2, calls |-> <<>>], poolId, ev.block, tokenAddresses, 1)
    IN IF ~b.ok
         THEN Result(s, <<>>, "fatal")
         ELSE Result(createPoolSnapshot(c.s, poolId, ev.block), c.calls,
                     IF joined THEN "join" ELSE "exit")

handlePoolJoined(s, ev) == handlePoolJoinedOrExited(s, ev, TRUE)

handlePoolExited(s, ev) == handlePoolJoinedOrExited(s, ev, FALSE)

handleBalanceChange(s, ev) ==
  IF Len(ev.deltas) = 0 THEN Result(s, <<>>, "empty")
  ELSE IF isJoin(ev.deltas)
    THEN handlePoolJoined(s, ev)
    ELSE handlePoolExited(s, ev)

(***************************************************************************)
(* Investments (part_001).                                                 *)
(***************************************************************************)
AssetManager == "am"

\* poolToken.invested is read without a null check: an absent PoolToken is a
\* fatal error
handleBalanceManage(s, ev) ==
  IF ~Exists(s.pool, ev.poolId) THEN Result(s, <<>>, "nopool")
  ELSE
    LET poolTokenId == getPoolTokenId(ev.poolId, ev.token)
        managedDeltaAmount == tokenToDecimal(ev.managedDelta, TokenDecimals(ev.token))
    IN IF ~Exists(s.poolToken, poolTokenId)
         THEN Result(s, <<>>, "fatal")
         ELSE Result(
                [s EXCEPT
                   !.poolToken[poolTokenId].invested = plus(@, managedDeltaAmount),
                   !.investment = Save(@, <<poolTokenId, AssetManager>>,
                                       [assetManagerAddress |-> AssetManager,
                                        poolTokenId         |-> poolTokenId,
                                        amount              |-> managedDeltaAmount,
                                        timestamp           |-> ev.block])],
                <<>>, "managed")

(***************************************************************************)
(* Swaps (part_001).                                                       *)
(***************************************************************************)
\* getUser: load the User or create it with zero totals
getUser(s, address) ==
  IF Exists(s.user, address) THEN s
  ELSE [s EXCEPT !.user = Save(@, address,
          [totalSwapVolume |-> ZERO_BD, totalSwapFee |-> ZERO_BD, totalSwapCount |-> 0])]

valueInUSD(s, value, asset) ==
  IF isUSDStable(asset)
    THEN Some(value)
    ELSE IF IsSet(pricingAssetInUSD(s, asset))
      THEN Some(times(value, pricingAssetInUSD(s, asset)[1].price))
      ELSE Null

\* createBatchSwap: the batch of a transaction starts from its first swap
createBatchSwap(swap) ==
  [tokenIn        |-> swap.tokenIn,
   tokenAmountIn  |-> ZERO_BD,
   tokenOut       |-> "",
   tokenAmountOut |-> ZERO_BD,
   matchingTokens |-> FALSE,
   swaps          |-> <<>>,
   user           |-> ""]

\* getBatchSwap: load the BatchSwap of the swap's transaction or create it
getBatchSwap(s, swap) ==
  IF Exists(s.batchSwap, swap.batch) THEN s.batchSwap[swap.batch]
  ELSE createBatchSwap(swap)

\* faulty variant: every inbound amount is added, whatever its token
batchTokenAmountInAnyToken(batchSwap, tokenInAddress, tokenAmountIn) ==
  plus(batchSwap.tokenAmountIn, tokenAmountIn)

batchTokenAmountIn(batchSwap, tokenInAddress, tokenAmountIn) ==
  IF batchSwap.tokenIn = tokenInAddress
    THEN plus(batchSwap.tokenAmountIn, tokenAmountIn)
    ELSE batchSwap.tokenAmountIn

\* faulty variant: every outbound amount is added, whatever its token
RECURSIVE batchedTotalAnyToken(_, _, _, _, _)
batchedTotalAnyToken(swapTable, swaps, tokenOutAddress, i, total) ==
  IF i > Len(swaps) THEN total
  ELSE batchedTotalAnyToken(swapTable, swaps, tokenOutAddress, i + 1,
         plus(total, swapTable[swaps[i]].tokenAmountOut))

\* the loop over the swaps already in the batch, from index i on
RECURSIVE batchedTotalTokenAmountOut(_, _, _, _, _)
batchedTotalTokenAmountOut(swapTable, swaps, tokenOutAddress, i, total) ==
  IF i > Len(swaps) THEN total
  ELSE batchedTotalTokenAmountOut(swapTable, swaps, tokenOutAddress, i + 1,
         IF tokenOutAddress = swapTable[swaps[i]].tokenOut
           THEN plus(total, swapTable[swaps[i]].tokenAmountOut)
           ELSE total)

batchMatchingTokens(batchSwap, tokenIn, tokenOut) ==
  IF tokenIn = tokenOut THEN TRUE ELSE batchSwap.matchingTokens

\* faulty variant: the swap is put at the head of the list
pushedSwapsAtHead(swaps, swapId) == <<swapId>> \o swaps

\* swaps.push(swap.id)
pushedSwaps(swaps, swapId) == Append(swaps, swapId)

\* the BatchSwap saved for a swap that has been saved in the Swap table
aggregatedBatchSwap(s, swapId, ev, tokenAmountIn, tokenAmountOut) ==
  LET batchSwap == getBatchSwap(s, s.swap[swapId])
  IN [tokenIn        |-> batchSwap.tokenIn,
      tokenAmountIn  |-> batchTokenAmountIn(batchSwap, ev.tokenIn, tokenAmountIn),
      tokenOut       |-> ev.tokenOut,
      tokenAmountOut |-> batchedTotalTokenAmountOut(s.swap, batchSwap.swaps,
                                                    ev.tokenOut, 1, tokenAmountOut),
      matchingTokens |-> batchMatchingTokens(batchSwap, batchSwap.tokenIn, ev.tokenOut),
      swaps          |-> pushedSwaps(batchSwap.swaps, swapId),
      user           |-> ev.from]

\* valueInUSD(out) || valueInUSD(in) || ZERO_BD
swapValue(s, tokenAmountIn, tokenInAddress, tokenAmountOut, tokenOutAddress) ==
  OrElse(valueInUSD(s, tokenAmountOut, tokenOutAddress),
         OrElse(valueInUSD(s, tokenAmountIn, tokenInAddress), Some(ZERO_BD)))[1]

\* faulty variant: the whole value is taken as fee
swapFeesWholeValue(swapValueUSD, swapFee) == swapValueUSD

swapFees(swapValueUSD, swapFee) == times(swapValueUSD, swapFee)

poolAfterSwap(pool, swapValueUSD) ==
  [pool EXCEPT
     !.swapsCount = @ + 1,
     !.totalSwapVolume = plus(@, swapValueUSD),
     !.totalSwapFee = plus(@, swapFees(swapValueUSD, pool.swapFee))]

\* faulty variant: the vault counts the swap and leaves its volume and fee out
vaultAfterSwapCountOnly(vault, swapValueUSD, swapFeesUSD) ==
  [vault EXCEPT !.totalSwapCount = @ + 1]

vaultAfterSwap(vault, swapValueUSD, swapFeesUSD) ==
  [vault EXCEPT
     !.totalSwapVolume = plus(@, swapValueUSD),
     !.totalSwapFee = plus(@, swapFeesUSD),
     !.totalSwapCount = @ + 1]

userAfterSwap(user, swapValueUSD, swapFeesUSD) ==
  [user EXCEPT
     !.totalSwapVolume = plus(@, swapValueUSD),
     !.totalSwapFee = plus(@, swapFeesUSD),
     !.totalSwapCount = @ + 1]

\* faulty variant: a swap with a zero amount moves no balance
poolTokensAfterSwapUnlessZero(poolTokens, poolId, ev, tokenAmountIn, tokenAmountOut) ==
  IF tokenAmountIn = ZERO_BD \/ tokenAmountOut = ZERO_BD THEN poolTokens
  ELSE [poolTokens EXCEPT
          ![getPoolTokenId(poolId, ev.tokenIn)].balance = plus(@, tokenAmountIn),
          ![getPoolTokenId(poolId, ev.tokenOut)].balance = minus(@, tokenAmountOut)]

\* the two PoolToken records are loaded before and saved after each other
poolTokensAfterSwap(poolTokens, poolId, ev, tokenAmountIn, tokenAmountOut) ==
  [poolTokens EXCEPT
     ![getPoolTokenId(poolId, ev.tokenIn)].balance = plus(@, tokenAmountIn),
     ![getPoolTokenId(poolId, ev.tokenOut)].balance = minus(@, tokenAmountOut)]

\* getTradePair: load the TradePair of the two tokens or create it
getTradePairId(tokenIn, tokenOut) == {tokenIn, tokenOut}

getTradePair(s, tokenIn, tokenOut) ==
  IF Exists(s.tradePair, getTradePairId(tokenIn, tokenOut))
    THEN s.tradePair[getTradePairId(tokenIn, tokenOut)]
    ELSE [totalSwapVolume |-> ZERO_BD, totalSwapFee |-> ZERO_BD]

\* faulty variant: the totals are accumulated whatever the batch's tokens
tradePairsAfterSwapAlways(s, batchSwap, ev, swapValueUSD, swapFeesUSD) ==
  Save(s.tradePair, getTradePairId(ev.tokenIn, ev.tokenOut),
       [getTradePair(s, ev.tokenIn, ev.tokenOut) EXCEPT
          !.totalSwapVolume = plus(@, swapValueUSD),
          !.totalSwapFee = plus(@, swapFeesUSD)])

\* trade pairs calculated on batchswaps
tradePairsAfterSwap(s, batchSwap, ev, swapValueUSD, swapFeesUSD) ==
  IF batchSwap.tokenIn # batchSwap.tokenOut
    THEN Save(s.tradePair, getTradePairId(ev.tokenIn, ev.tokenOut),
              [getTradePair(s, ev.tokenIn, ev.tokenOut) EXCEPT
                 !.totalSwapVolume = plus(@, swapValueUSD),
                 !.totalSwapFee = plus(@, swapFeesUSD)])
    ELSE s.tradePair

\* getTradePairSnapshot: load the snapshot of the pair at the timestamp or
\* create it
getTradePairSnapshot(s, tradePairId, timestamp) ==
  IF Exists(s.tradePairSnapshot, <<tradePairId, timestamp>>)
    THEN s.tradePairSnapshot[<<tradePairId, timestamp>>]
    ELSE [swapVolume |-> ZERO_BD, swapFee |-> ZERO_BD]

tradePairSnapshotsAfterSwap(s, batchSwap, ev, swapValueUSD, swapFeesUSD) ==
  IF batchSwap.tokenIn # batchSwap.tokenOut
    THEN Save(s.tradePairSnapshot, <<getTradePairId(ev.tokenIn, ev.tokenOut), ev.block>>,
              [getTradePairSnapshot(s, getTradePairId(ev.tokenIn, ev.tokenOut), ev.block) EXCEPT
                 !.swapVolume = plus(@, swapValueUSD),
                 !.swapFee = plus(@, swapFeesUSD)])
    ELSE s.tradePairSnapshot

\* the canonical order of the two addresses of a trade pair
TokenRank(t) == CASE t = BAL -> 1 [] t = DAI -> 2 [] t = USDC -> 3 [] OTHER -> 4

token0(tokenIn, tokenOut) ==
  IF TokenRank(tokenIn) < TokenRank(tokenOut) THEN tokenIn ELSE tokenOut

\* getTradePairPrice(tradePair.id, blockTimestamp) with the price of the swap
tradePairPricesAfterSwap(s, ev, tokenAmountIn, tokenAmountOut) ==
  Save(s.tradePairPrice, <<getTradePairId(ev.tokenIn, ev.tokenOut), ev.block>>,
       [price |-> IF ev.tokenIn = token0(ev.tokenIn, ev.tokenOut)
                    THEN div(tokenAmountOut, tokenAmountIn)
                    ELSE div(tokenAmountIn, tokenAmountOut)])

\* a leg of the swap that is a pricing asset: the TokenPrice of the other leg
\* in it, then updatePoolLiquidity
\* the price taken as the other leg's amount over this leg's
capturePriceOtherOverThis(c, poolId, block, asset, pricingAsset, amount, otherAmount) ==
  IF isPricingAsset(pricingAsset)
    THEN updatePoolLiquidity(
           [c EXCEPT !.s.tokenPrice =
              Save(@, getTokenPriceId(poolId, asset, pricingAsset, block),
                   [poolId       |-> poolId,
                    block        |-> block,
                    timestamp    |-> block,
                    asset        |-> asset,
                    amount       |-> amount,
                    pricingAsset |-> pricingAsset,
                    price        |-> div(otherAmount, amount)])],
           poolId, block, pricingAsset)
    ELSE c

\* faulty variant: between two pricing assets no price is recorded
capturePriceOneLegOnly(c, poolId, block, asset, pricingAsset, amount, otherAmount) ==
  IF isPricingAsset(pricingAsset) /\ ~isPricingAsset(asset)
    THEN updatePoolLiquidity(
           [c EXCEPT !.s.tokenPrice =
              Save(@, getTokenPriceId(poolId, asset, pricingAsset, block),
                   [poolId       |-> poolId,
                    block        |-> block,
                    timestamp    |-> block,
                    asset        |-> asset,
                    amount       |-> amount,
                    pricingAsset |-> pricingAsset,
                    price        |-> div(amount, otherAmount)])],
           poolId, block, pricingAsset)
    ELSE c

capturePrice(c, poolId, block, asset, pricingAsset, amount, otherAmount) ==
  IF isPricingAsset(pricingAsset)
    THEN updatePoolLiquidity(
           [c EXCEPT !.s.tokenPrice =
              Save(@, getTokenPriceId(poolId, asset, pricingAsset, block),
                   [poolId       |-> poolId,
                    block        |-> block,
                    timestamp    |-> block,
                    asset        |-> asset,
                    amount       |-> amount,
                    pricingAsset |-> pricingAsset,
                    price        |-> div(amount, otherAmount)])],
           poolId, block, pricingAsset)
    ELSE c

SwapRecord(ev, tokenAmountIn, tokenAmountOut) ==
  [tokenIn        |-> ev.tokenIn,
   tokenAmountIn  |-> tokenAmountIn,
   tokenOut       |-> ev.tokenOut,
   tokenAmountOut |-> tokenAmountOut,
   userAddress    |-> ev.from,
   poolId         |-> ev.poolId,
   timestamp      |-> ev.block,
   tx             |-> ev.tx,
   batch          |-> ev.tx]

\* the handler up to the zero-amount check: every save from the Swap record
\* to the trade pair
swapBookkeeping(s0, ev) ==
  LET poolId == ev.poolId
      swapId == <<ev.tx, ev.logIndex>>
      tokenAmountIn == scaleDown(ev.amountIn, TokenDecimals(ev.tokenIn))
      tokenAmountOut == scaleDown(ev.amountOut, TokenDecimals(ev.tokenOut))
      s1 == [s0 EXCEPT !.swap = Save(@, swapId, SwapRecord(ev, tokenAmountIn, tokenAmountOut))]
      batchSwap == aggregatedBatchSwap(s1, swapId, ev, tokenAmountIn, tokenAmountOut)
      s2 == [s1 EXCEPT !.batchSwap = Save(@, ev.tx, batchSwap)]
      swapValueUSD == swapValue(s2, tokenAmountIn, ev.tokenIn, tokenAmountOut, ev.tokenOut)
      swapFeesUSD == swapFees(swapValueUSD, s2.pool[poolId].swapFee)
      s3 == [s2 EXCEPT
               !.pool[poolId] = poolAfterSwap(@, swapValueUSD),
               !.balancer["2"] = vaultAfterSwap(@, swapValueUSD, swapFeesUSD),
               !.poolToken = poolTokensAfterSwap(@, poolId, ev, tokenAmountIn, tokenAmountOut),
               !.user[ev.from] = userAfterSwap(@, swapValueUSD, swapFeesUSD)]
  IN [s3 EXCEPT
        !.tradePair = tradePairsAfterSwap(s3, batchSwap, ev, swapValueUSD, swapFeesUSD),
        !.tradePairSnapshot = tradePairSnapshotsAfterSwap(s3, batchSwap, ev, swapValueUSD, swapFeesUSD)]

\* scopeFault: the read of `tradePair` outside the block that declares it
\* faults; where it does not, `tradePair` holds a value only if the block ran,
\* that is if the batch's tokens differ.  A fatal error ends the handler and
\* none of its writes is kept.
handleSwapEvent(s, ev, scopeFault) ==
  LET s0 == getUser(s, ev.from)
      poolId == ev.poolId
  IN
  IF ~Exists(s0.pool, poolId) THEN Result(s0, <<>>, "nopool")
  ELSE IF ~Exists(s0.poolToken, getPoolTokenId(poolId, ev.tokenIn))
          \/ ~Exists(s0.poolToken, getPoolTokenId(poolId, ev.tokenOut))
    THEN Result(s, <<>>, "fatal")
  ELSE
    LET tokenAmountIn == scaleDown(ev.amountIn, TokenDecimals(ev.tokenIn))
        tokenAmountOut == scaleDown(ev.amountOut, TokenDecimals(ev.tokenOut))
        s4 == swapBookkeeping(s0, ev)
        batchSwap == s4.batchSwap[ev.tx]
        s5 == [s4 EXCEPT !.tradePairPrice =
                 tradePairPricesAfterSwap(s4, ev, tokenAmountIn, tokenAmountOut)]
        c1 == capturePrice([s |-> s5, calls |-> <<>>], poolId, ev.block,
                           ev.tokenOut, ev.tokenIn, tokenAmountIn, tokenAmountOut)
        c2 == capturePrice(c1, poolId, ev.block,
                           ev.tokenIn, ev.tokenOut, tokenAmountOut, tokenAmountIn)
    IN IF tokenAmountOut = ZERO_BD \/ tokenAmountIn = ZERO_BD
         THEN Result(s4, <<>>, "zero")
         ELSE IF scopeFault \/ batchSwap.tokenIn = batchSwap.tokenOut
           THEN Result(s, <<>>, "fatal")
           ELSE Result(createPoolSnapshot(c2.s, poolId, ev.block), c2.calls, "swap")

(***************************************************************************)
(* The indexer: events are handled one at a time, in chain order.          *)
(***************************************************************************)
VARIABLES
  store,     \* the entity store
  pre,       \* the store before the last event was handled
  last,      \* the last event and how its handler ended
  calls,     \* the updatePoolLiquidity calls of the last event
  clock,     \* the current transaction and block, the last log index
  nCreates,  \* PoolCreated events delivered
  nEvents,   \* vault events delivered
  recorded   \* for each <<asset, pricingAsset>>, the TokenPrice recorded last

vars == <<store, pre, last, calls, clock, nCreates, nEvents, recorded>>

\* try_getPoolTokens reverts or not when the pool is created
RevertsOf(p) == IF p = "p3" THEN BOOLEAN ELSE {FALSE}

\* the deltas a PoolBalanceChanged event may carry for a pool
DeltasOf(p) ==
  CASE p = "p1" -> {<<10, 10, 10>>, <<-10, -10, -10>>, <<10, 10, -10>>}
    [] p = "p2" -> {<<10, 10>>, <<-10, -10>>, <<10, -10>>}
    [] p = "p3" -> {<<10>>, <<>>}
    [] OTHER    -> {<<10, 10>>, <<-10, -10>>}

\* the raw <<amountIn, amountOut>> a Swap event may carry
SwapAmounts == {<<10, 20>>, <<0, 10>>, <<20, 0>>}

\* the tokens a Swap event may name: WETH and another token of the pool, or
\* the two tokens of the pool that holds no WETH
SwapTokensOf(p) ==
  {pr \in Tokens \X Tokens :
     /\ pr[1] # pr[2]
     /\ WETH \in {pr[1], pr[2]} \/ p = "p6"
     /\ \E i, j \in 1..Len(VaultPoolTokens(p)) :
          VaultPoolTokens(p)[i] = pr[1] /\ VaultPoolTokens(p)[j] = pr[2]}

\* the vault reports events of a pool once the pool exists: the pools that
\* were created, and the unindexed pool
EventPools(s) == DOMAIN s.pool \cup {UnindexedPool}

Event(kind, poolId, outcome) ==
  [kind |-> kind, poolId |-> poolId, outcome |-> outcome,
   reverted |-> FALSE, deltas |-> <<>>,
   tokenIn |-> "", tokenOut |-> "", amountIn |-> 0, amountOut |-> 0,
   token |-> "", managedDelta |-> 0,
   tx |-> 0, logIndex |-> 0, block |-> 0, from |-> ""]

\* a fatal error stops the indexer
Running == last.outcome # "fatal"

Init ==
  /\ store = EmptyStore
  /\ pre = EmptyStore
  /\ last = Event("init", "", "init")
  /\ calls = <<>>
  /\ clock = [tx |-> 1, block |-> 1, logIndex |-> 0]
  /\ nCreates = 0
  /\ nEvents = 0
  /\ recorded = EmptyTable

\* a PoolCreated event of a factory, once per pool; the pools exist before
\* the vault reports events
PoolCreatedOf(pools) ==
  \E p \in pools, reverted \in BOOLEAN :
    /\ Running
    /\ ~Exists(store.pool, p)
    /\ reverted \in RevertsOf(p)
    /\ nCreates < MaxCreates
    /\ nEvents = 0
    /\ store' = createPool(store, p, reverted)
    /\ pre' = store
    /\ last' = [Event("create", p, "created") EXCEPT !.reverted = reverted]
    /\ calls' = <<>>
    /\ nCreates' = nCreates + 1
    /\ UNCHANGED <<clock, nEvents, recorded>>

\* the next events belong to a new transaction, in the same block or in a
\* new one
NewTransactionOf(maxEvents) ==
  \E sameBlock \in BOOLEAN :
    /\ Running
    /\ nEvents < maxEvents
    /\ last.kind \in {"balance", "swap", "manage"}
    /\ last.tx = clock.tx
    /\ clock' = [clock EXCEPT !.tx = @ + 1,
                               !.block = IF sameBlock THEN @ ELSE @ + 1]
    /\ UNCHANGED <<store, pre, last, calls, nCreates, nEvents, recorded>>

\* the <<asset, pricingAsset>> pairs whose TokenPrice a handled event saved
RecordedBy(ev, r) ==
  IF ev.kind = "swap" /\ r.outcome = "swap"
    THEN {k \in {<<ev.tokenOut, ev.tokenIn>>, <<ev.tokenIn, ev.tokenOut>>} :
            /\ isPricingAsset(k[2])
            /\ Exists(r.s.tokenPrice, getTokenPriceId(ev.poolId, k[1], k[2], ev.block))}
    ELSE {}

Handled(ev, r) ==
  /\ recorded' = [k \in DOMAIN recorded \cup RecordedBy(ev, r) |->
                    IF k \in RecordedBy(ev, r)
                      THEN r.s.tokenPrice[getTokenPriceId(ev.poolId, k[1], k[2], ev.block)]
                      ELSE recorded[k]]
  /\ store' = r.s
  /\ pre' = store
  /\ last' = [ev EXCEPT !.outcome = r.outcome]
  /\ calls' = r.calls
  /\ clock' = [clock EXCEPT !.logIndex = ev.logIndex]
  /\ nEvents' = nEvents + 1
  /\ UNCHANGED nCreates

PoolBalanceChangedOf(pools, maxEvents) ==
  \E p \in pools \cap EventPools(store) :
    \E deltas \in DeltasOf(p), from \in Users :
      LET ev == [Event("balance", p, "") EXCEPT
                   !.deltas = deltas, !.from = from,
                   !.tx = clock.tx, !.block = clock.block,
                   !.logIndex = clock.logIndex + 1]
      IN /\ Running
         /\ nEvents < maxEvents
         /\ Handled(ev, handleBalanceChange(store, ev))

SwapOf(pools, maxEvents) ==
  \E p \in pools \cap EventPools(store), scopeFault \in BOOLEAN :
    \E tokens \in SwapTokensOf(p), amounts \in SwapAmounts, from \in Users :
      LET ev == [Event("swap", p, "") EXCEPT
                   !.tokenIn = tokens[1], !.tokenOut = tokens[2],
                   !.amountIn = amounts[1], !.amountOut = amounts[2], !.from = from,
                   !.tx = clock.tx, !.block = clock.block,
                   !.logIndex = clock.logIndex + 1]
      IN /\ Running
         /\ nEvents < maxEvents
         /\ Handled(ev, handleSwapEvent(store, ev, scopeFault))

\* the managed delta a PoolBalanceManaged event may carry
ManagedDeltas == {10}

PoolBalanceManagedOf(pools, maxEvents) ==
  \E p \in pools \cap EventPools(store), managedDelta \in ManagedDeltas :
    LET ev == [Event("manage", p, "") EXCEPT
                 !.token = WETH, !.managedDelta = managedDelta,
                 !.tx = clock.tx, !.block = clock.block,
                 !.logIndex = clock.logIndex + 1]
    IN /\ Running
       /\ nEvents < maxEvents
       /\ Handled(ev, handleBalanceManage(store, ev))

PoolCreated == PoolCreatedOf(PoolIds)

PoolBalanceChanged == PoolBalanceChangedOf(PoolIds \cup {UnindexedPool}, MaxEvents)

Swap == SwapOf(PoolIds \cup {UnindexedPool}, MaxEvents)

PoolBalanceManaged == PoolBalanceManagedOf(PoolIds \cup {UnindexedPool}, MaxEvents)

NewTransaction == NewTransactionOf(MaxEvents)

Next == PoolCreated \/ NewTransaction \/ PoolBalanceChanged \/ PoolBalanceManaged \/ Swap

Spec == Init /\ [][Next]_vars

\* the swaps of one pool, batched in transactions
BatchPoolCreated == PoolCreatedOf({"p1"})

BatchSwapped == SwapOf({"p1"}, MaxBatchSwaps)

BatchNewTransaction == NewTransactionOf(MaxBatchSwaps)

NextBatch == BatchPoolCreated \/ BatchNewTransaction \/ BatchSwapped

SpecBatch == Init /\ [][NextBatch]_vars

\* inconsistent prior processing: a PoolToken of a known pool is absent
PoolTokenLost ==
  \E id \in DOMAIN store.poolToken :
    /\ Running
    /\ nEvents = 0
    /\ last.kind = "create"
    /\ store' = [store EXCEPT !.poolToken = Remove(@, id)]
    /\ pre' = store
    /\ last' = Event("fault", id[1], "lost")
    /\ calls' = <<>>
    /\ UNCHANGED <<clock, nCreates, nEvents, recorded>>

FaultPoolCreated == PoolCreatedOf({"p1", "p2"})

FaultBalanceChanged == PoolBalanceChangedOf({"p1", "p2"}, MaxFaultEvents)

NextFault == FaultPoolCreated \/ PoolTokenLost \/ FaultBalanceChanged

SpecFault == Init /\ [][NextFault]_vars

\* two pools that hold WETH and USDC
PricePoolCreated == PoolCreatedOf(PricePoolIds)

PriceBalanceChanged == PoolBalanceChangedOf(PricePoolIds, MaxPriceEvents)

PriceSwapped == SwapOf(PricePoolIds, MaxPriceEvents)

PriceNewTransaction == NewTransactionOf(MaxPriceEvents)

NextPrices ==
  PricePoolCreated \/ PriceNewTransaction \/ PriceBalanceChanged \/ PriceSwapped

SpecPrices == Init /\ [][NextPrices]_vars

\* a PoolCreated event for a pool id that already has a Pool record
PoolCreatedAgain ==
  \E p \in PoolIds, reverted \in BOOLEAN :
    /\ Running
    /\ Exists(store.pool, p)
    /\ reverted \in RevertsOf(p)
    /\ nCreates < MaxCreateEvents
    /\ store' = createPool(store, p, reverted)
    /\ pre' = store
    /\ last' = [Event("create", p, "created") EXCEPT !.reverted = reverted]
    /\ calls' = <<>>
    /\ nCreates' = nCreates + 1
    /\ UNCHANGED <<clock, nEvents, recorded>>

CreatePoolCreated == PoolCreatedOf(PoolIds)

CreateBalanceChanged == PoolBalanceChangedOf(PoolIds, MaxRepeatEvents)

CreateSwapped == SwapOf(PoolIds, MaxRepeatEvents)

NextCreate ==
  CreatePoolCreated \/ PoolCreatedAgain \/ CreateBalanceChanged \/ CreateSwapped

SpecCreate == Init /\ [][NextCreate]_vars

\* swaps with two, one and no pricing-asset leg
LegPoolCreated == PoolCreatedOf(LegPoolIds)

LegSwapped == SwapOf(LegPoolIds, MaxLegEvents)

LegNewTransaction == NewTransactionOf(MaxLegEvents)

NextLegs == LegPoolCreated \/ LegNewTransaction \/ LegSwapped

SpecLegs == Init /\ [][NextLegs]_vars

(***************************************************************************)
(* Properties.                                                             *)
(***************************************************************************)
\* the last event was a balance change that ran to the end of
\* handlePoolJoined or handlePoolExited
BalanceChangeHandled == last.kind = "balance" /\ last.outcome \in {"join", "exit"}

\* the last event was a swap whose handler returned normally on a known pool
SwapHandled == last.kind = "swap" /\ last.outcome \in {"swap", "zero"}

\* an on-chain amount in human units
Scaled(raw, token) == (raw * UNIT) \div (10 ^ TokenDecimals(token))

TotalLiquidity(s) ==
  IF Exists(s.balancer, "2") THEN s.balancer["2"].totalLiquidity ELSE 0

RECURSIVE SumPoolLiquidity(_, _)
SumPoolLiquidity(s, ids) ==
  IF ids = {} THEN 0
  ELSE LET id == CHOOSE x \in ids : TRUE
       IN s.pool[id].liquidity + SumPoolLiquidity(s, ids \ {id})

\* C1: in every state Balancer.totalLiquidity equals the sum of the current
\* liquidity of all pools.
C1_TotalLiquidityIsSum ==
  TotalLiquidity(store) = SumPoolLiquidity(store, DOMAIN store.pool)

\* two pools hold different, non-zero liquidity after an event that changed
\* the total
C1_Witness ==
  /\ \E p, q \in DOMAIN store.pool :
       /\ store.pool[p].liquidity > 0
       /\ store.pool[q].liquidity > 0
       /\ store.pool[p].liquidity # store.pool[q].liquidity
  /\ TotalLiquidity(store) # TotalLiquidity(pre)

\* the USD route of a pricing asset in a store: the rate, or none
C2_UsdRate(s, pricingAsset) ==
  IF pricingAsset \in {USDC, DAI} THEN Some(UNIT)
  ELSE IF <<pricingAsset, USDC>> \in DOMAIN s.latestPrice
    THEN Some(s.latestPrice[<<pricingAsset, USDC>>].price)
  ELSE IF <<pricingAsset, DAI>> \in DOMAIN s.latestPrice
    THEN Some(s.latestPrice[<<pricingAsset, DAI>>].price)
  ELSE Null

C2_HasTokenPrice(s, call, token) ==
  <<call.poolId, token, call.pricingAsset, call.block>> \in DOMAIN s.tokenPrice

C2_HasLatestPrice(s, call, token) ==
  <<token, call.pricingAsset>> \in DOMAIN s.latestPrice

\* what the claim gives a token of the pool in units of the pricing asset
C2_Contribution(s, call, token) ==
  LET balance == s.poolToken[<<call.poolId, token>>].balance
  IN IF token = call.pricingAsset THEN balance
     ELSE IF C2_HasTokenPrice(s, call, token)
       THEN (balance * s.tokenPrice[<<call.poolId, token, call.pricingAsset,
                                      call.block>>].price) \div UNIT
     ELSE IF C2_HasLatestPrice(s, call, token)
       THEN (balance * s.latestPrice[<<token, call.pricingAsset>>].price) \div UNIT
     ELSE 0

RECURSIVE C2_PoolValue(_, _, _)
C2_PoolValue(s, call, i) ==
  IF i > Len(s.pool[call.poolId].tokensList) THEN 0
  ELSE C2_Contribution(s, call, s.pool[call.poolId].tokensList[i])
         + C2_PoolValue(s, call, i + 1)

\* C2: an updatePoolLiquidity call on a pool of at least 2 tokens whose
\* pricing asset has a USD route leaves the pool's liquidity equal to the
\* USD rate times the sum of the tokens' contributions.
C2_LiquidityIsValuedSum ==
  \A k \in 1..Len(calls) :
    LET call == calls[k]
        rate == C2_UsdRate(call.before, call.pricingAsset)
    IN (call.before.pool[call.poolId].tokensCount >= 2 /\ rate # Null)
         => call.after.pool[call.poolId].liquidity
              = (C2_PoolValue(call.before, call, 1) * rate[1]) \div UNIT

\* a call whose pricing asset is not USD-stable and has a route, on a pool
\* that holds the pricing asset, a token with a price and a token without
C2_Witness ==
  \E k \in 1..Len(calls) :
    LET call == calls[k]
        s == call.before
        list == s.pool[call.poolId].tokensList
    IN /\ call.pricingAsset \notin {USDC, DAI}
       /\ C2_UsdRate(s, call.pricingAsset) # Null
       /\ call.after.pool[call.poolId].liquidity > 0
       /\ call.after.pool[call.poolId].liquidity # s.pool[call.poolId].liquidity
       /\ \E a, b, c \in 1..Len(list) :
            /\ list[a] = call.pricingAsset
            /\ list[b] # call.pricingAsset
            /\ C2_HasTokenPrice(s, call, list[b]) \/ C2_HasLatestPrice(s, call, list[b])
            /\ s.poolToken[<<call.poolId, list[b]>>].balance # 0
            /\ list[c] # call.pricingAsset
            /\ ~C2_HasTokenPrice(s, call, list[c])
            /\ ~C2_HasLatestPrice(s, call, list[c])
            /\ s.poolToken[<<call.poolId, list[c]>>].balance # 0

\* C3: an updatePoolLiquidity call whose pricing asset has no USD route
\* leaves the pool's liquidity and Balancer.totalLiquidity unchanged.
C3_NoRouteLeavesLiquidity ==
  \A k \in 1..Len(calls) :
    LET call == calls[k]
    IN C2_UsdRate(call.before, call.pricingAsset) = Null
         => /\ call.after.pool[call.poolId].liquidity
                 = call.before.pool[call.poolId].liquidity
            /\ TotalLiquidity(call.after) = TotalLiquidity(call.before)

\* what the last event adds to the balance of a PoolToken
C4_Delta(id) ==
  LET list == pre.pool[last.poolId].tokensList
  IN IF BalanceChangeHandled
       THEN IF \E i \in 1..Len(list) : id = <<last.poolId, list[i]>>
              THEN LET i == CHOOSE j \in 1..Len(list) : id = <<last.poolId, list[j]>>
                   IN Scaled(last.deltas[i], list[i])
              ELSE 0
       ELSE IF id = <<last.poolId, last.tokenIn>> THEN Scaled(last.amountIn, last.tokenIn)
       ELSE IF id = <<last.poolId, last.tokenOut>> THEN -Scaled(last.amountOut, last.tokenOut)
       ELSE 0

\* C4: a handled join, exit or swap moves every PoolToken balance by exactly
\* the scaled delta the event carries for it, with the delta's own sign,
\* without clamping, and leaves every other PoolToken balance alone.
C4_BalancesFollowDeltas ==
  (BalanceChangeHandled \/ SwapHandled) =>
    /\ DOMAIN store.poolToken = DOMAIN pre.poolToken
    /\ \A id \in DOMAIN store.poolToken :
         store.poolToken[id].balance = pre.poolToken[id].balance + C4_Delta(id)

\* an Exit with a positive delta has raised that balance and has driven
\* another balance below zero
C4_Witness ==
  /\ last.kind = "balance" /\ last.outcome = "exit"
  /\ LET list == pre.pool[last.poolId].tokensList
     IN \E i, j \in 1..Len(list) :
          /\ last.deltas[i] > 0
          /\ store.poolToken[<<last.poolId, list[i]>>].balance
               > pre.poolToken[<<last.poolId, list[i]>>].balance
          /\ last.deltas[j] < 0
          /\ store.poolToken[<<last.poolId, list[j]>>].balance < 0

RECURSIVE C5_Sum(_)
C5_Sum(deltas) == IF deltas = <<>> THEN 0 ELSE Head(deltas) + C5_Sum(Tail(deltas))

\* the last event is a PoolBalanceChanged on a pool the store knew
C5_OnKnownPool == last.kind = "balance" /\ last.poolId \in DOMAIN pre.pool

C5_OneRecord(type) ==
  LET id == <<last.tx, last.logIndex>>
  IN /\ id \notin DOMAIN pre.joinExit
     /\ DOMAIN store.joinExit = DOMAIN pre.joinExit \cup {id}
     /\ store.joinExit[id].type = type
     /\ \A other \in DOMAIN pre.joinExit : store.joinExit[other] = pre.joinExit[other]

\* C5 as claimed: every PoolBalanceChanged on a known pool is handled as a
\* Join when the sum of its deltas is strictly positive and as an Exit
\* otherwise, and creates exactly one JoinExit record of that type.
C5_ClassifiedBySum ==
  C5_OnKnownPool =>
    IF C5_Sum(last.deltas) > 0
      THEN last.outcome = "join" /\ C5_OneRecord("Join")
      ELSE last.outcome = "exit" /\ C5_OneRecord("Exit")

\* C5 amended: the same for an event that carries at least one delta; an
\* event without deltas is ignored and creates no JoinExit record.
C5_ClassifiedBySumUnlessEmpty ==
  C5_OnKnownPool =>
    IF last.deltas = <<>>
      THEN last.outcome = "empty" /\ store = pre
      ELSE IF C5_Sum(last.deltas) > 0
        THEN last.outcome = "join" /\ C5_OneRecord("Join")
        ELSE last.outcome = "exit" /\ C5_OneRecord("Exit")

\* an event with mixed signs and a zero net sum was handled as an Exit
C5_Witness ==
  /\ C5_OnKnownPool
  /\ last.outcome = "exit"
  /\ C5_Sum(last.deltas) = 0
  /\ \E i \in 1..Len(last.deltas) : last.deltas[i] > 0

\* C6: the amounts of the JoinExit record of a handled event are aligned
\* with the pool's tokensList: the scaled delta of token i for a Join, the
\* negated scaled delta of token i for an Exit.
C6_AmountsAligned ==
  BalanceChangeHandled =>
    LET list == pre.pool[last.poolId].tokensList
        rec == store.joinExit[<<last.tx, last.logIndex>>]
    IN /\ Len(rec.amounts) = Len(last.deltas)
       /\ \A i \in 1..Len(list) :
            rec.amounts[i] = IF rec.type = "Join"
                               THEN Some(Scaled(last.deltas[i], list[i]))
                               ELSE Some(-Scaled(last.deltas[i], list[i]))

\* a pure withdrawal from a pool whose tokens differ in decimals is recorded
\* with positive amounts
C6_Witness ==
  /\ BalanceChangeHandled
  /\ LET list == pre.pool[last.poolId].tokensList
         rec == store.joinExit[<<last.tx, last.logIndex>>]
     IN /\ rec.type = "Exit"
        /\ Len(list) >= 2
        /\ \A i \in 1..Len(list) : last.deltas[i] < 0 /\ rec.amounts[i][1] > 0
        /\ \E i, j \in 1..Len(list) : rec.amounts[i] # rec.amounts[j]

\* the Swap records of a transaction
SwapsOfTx(s, tx) == {id \in DOMAIN s.swap : s.swap[id].batch = tx}

RECURSIVE SumAmountOut(_, _)
SumAmountOut(s, ids) ==
  IF ids = {} THEN 0
  ELSE LET id == CHOOSE x \in ids : TRUE
       IN s.swap[id].tokenAmountOut + SumAmountOut(s, ids \ {id})

RECURSIVE SumAmountIn(_, _)
SumAmountIn(s, ids) ==
  IF ids = {} THEN 0
  ELSE LET id == CHOOSE x \in ids : TRUE
       IN s.swap[id].tokenAmountIn + SumAmountIn(s, ids \ {id})

\* C7: after a swap is handled, the BatchSwap of its transaction has the
\* swap's tokenOut, and its tokenAmountOut is the sum of the outbound amounts
\* of the transaction's swaps so far, the current one included once, whose
\* tokenOut is that token.
C7_BatchOutIsSumOfMatching ==
  SwapHandled =>
    /\ last.tx \in DOMAIN store.batchSwap
    /\ store.batchSwap[last.tx].tokenOut = last.tokenOut
    /\ store.batchSwap[last.tx].tokenAmountOut =
         SumAmountOut(store, {id \in SwapsOfTx(store, last.tx) :
                                store.swap[id].tokenOut = last.tokenOut})

\* the third swap of a transaction: an earlier swap had the same tokenOut and
\* a non-zero amount, another had a different tokenOut and a non-zero amount
C7_Witness ==
  /\ SwapHandled
  /\ last.amountOut > 0
  /\ \E a, b \in SwapsOfTx(pre, last.tx) :
       /\ pre.swap[a].tokenOut = last.tokenOut /\ pre.swap[a].tokenAmountOut > 0
       /\ pre.swap[b].tokenOut # last.tokenOut /\ pre.swap[b].tokenAmountOut > 0

\* C8: for every BatchSwap, matchingTokens is true exactly when the batch's
\* tokenIn equals its tokenOut.
C8_MatchingIffTokensCoincide ==
  \A tx \in DOMAIN store.batchSwap :
    store.batchSwap[tx].matchingTokens
      <=> (store.batchSwap[tx].tokenIn = store.batchSwap[tx].tokenOut)

\* the first swap of a transaction: the one with the least log index
FirstSwapOfTx(s, tx) ==
  CHOOSE id \in SwapsOfTx(s, tx) : \A other \in SwapsOfTx(s, tx) : id[2] <= other[2]

\* C9: the tokenIn of a BatchSwap is the tokenIn of the first swap of its
\* transaction, and its tokenAmountIn is the sum of the inbound amounts of
\* the transaction's swaps whose tokenIn is that token.
C9_BatchInIsSumOfFirstToken ==
  \A tx \in DOMAIN store.batchSwap :
    /\ SwapsOfTx(store, tx) # {}
    /\ store.batchSwap[tx].tokenIn = store.swap[FirstSwapOfTx(store, tx)].tokenIn
    /\ store.batchSwap[tx].tokenAmountIn =
         SumAmountIn(store, {id \in SwapsOfTx(store, tx) :
                               store.swap[id].tokenIn = store.batchSwap[tx].tokenIn})

\* a batch of three swaps: two with the batch's tokenIn and non-zero inbound
\* amounts, one with another tokenIn and a non-zero inbound amount
C9_Witness ==
  \E tx \in DOMAIN store.batchSwap :
    /\ Len(store.batchSwap[tx].swaps) = 3
    /\ \E a, b, c \in SwapsOfTx(store, tx) :
         /\ a # b
         /\ store.swap[a].tokenIn = store.batchSwap[tx].tokenIn
         /\ store.swap[b].tokenIn = store.batchSwap[tx].tokenIn
         /\ store.swap[c].tokenIn # store.batchSwap[tx].tokenIn
         /\ store.swap[a].tokenAmountIn > 0
         /\ store.swap[b].tokenAmountIn > 0
         /\ store.swap[c].tokenAmountIn > 0

\* the USD value of the last swap: its outbound leg, else its inbound leg,
\* else zero
C10_UsdValue ==
  LET out == C2_UsdRate(pre, last.tokenOut)
      in == C2_UsdRate(pre, last.tokenIn)
  IN IF out # Null THEN (Scaled(last.amountOut, last.tokenOut) * out[1]) \div UNIT
     ELSE IF in # Null THEN (Scaled(last.amountIn, last.tokenIn) * in[1]) \div UNIT
     ELSE 0

\* C10: a handled swap adds 1 to the pool's swapsCount and to
\* Balancer.totalSwapCount, the swap's USD value to both totalSwapVolume and
\* that value times the pool's swapFee to both totalSwapFee; no event lowers
\* one of these counters.
C10_SwapCountersStep ==
  /\ SwapHandled =>
       LET p == last.poolId
           value == C10_UsdValue
           fee == (value * pre.pool[p].swapFee) \div UNIT
       IN /\ store.pool[p].swapsCount = pre.pool[p].swapsCount + 1
          /\ store.pool[p].totalSwapVolume = pre.pool[p].totalSwapVolume + value
          /\ store.pool[p].totalSwapFee = pre.pool[p].totalSwapFee + fee
          /\ store.balancer["2"].totalSwapCount = pre.balancer["2"].totalSwapCount + 1
          /\ store.balancer["2"].totalSwapVolume = pre.balancer["2"].totalSwapVolume + value
          /\ store.balancer["2"].totalSwapFee = pre.balancer["2"].totalSwapFee + fee
  /\ \A p \in DOMAIN pre.pool :
       /\ store.pool[p].swapsCount >= pre.pool[p].swapsCount
       /\ store.pool[p].totalSwapVolume >= pre.pool[p].totalSwapVolume
       /\ store.pool[p].totalSwapFee >= pre.pool[p].totalSwapFee
  /\ \A b \in DOMAIN pre.balancer :
       /\ store.balancer[b].totalSwapCount >= pre.balancer[b].totalSwapCount
       /\ store.balancer[b].totalSwapVolume >= pre.balancer[b].totalSwapVolume
       /\ store.balancer[b].totalSwapFee >= pre.balancer[b].totalSwapFee

\* a second swap of a pool with a non-zero USD value and a non-zero fee
C10_Witness ==
  /\ SwapHandled
  /\ pre.pool[last.poolId].swapsCount = 1
  /\ C10_UsdValue > 0
  /\ store.pool[last.poolId].totalSwapFee > pre.pool[last.poolId].totalSwapFee
  /\ store.pool[last.poolId].totalSwapFee # store.pool[last.poolId].totalSwapVolume

\* the last event named a pool the store does not know
SkippedForUnknownPool ==
  last.kind \in {"balance", "manage", "swap"} /\ last.outcome = "nopool"

\* C11: an event for a pool without a Pool record leaves every entity of the
\* store as it was.
C11_UnknownPoolMutatesNothing == SkippedForUnknownPool => store = pre

\* the tokens of the last event's pool whose PoolToken the store did not hold
C12_AbsentPoolTokens ==
  LET list == pre.pool[last.poolId].tokensList
  IN {i \in 1..Len(list) : <<last.poolId, list[i]>> \notin DOMAIN pre.poolToken}

ZeroAmountSwap ==
  /\ last.kind = "swap"
  /\ last.poolId \in DOMAIN pre.pool
  /\ \/ Scaled(last.amountIn, last.tokenIn) = 0
     \/ Scaled(last.amountOut, last.tokenOut) = 0

\* C13: a swap with a zero amount still takes the pool snapshot that ends
\* the handler.
C13_ZeroSwapStillSnapshots ==
  ZeroAmountSwap => <<last.poolId, last.block>> \in store.poolSnapshot

\* C14: a swap with a zero amount writes no trade-pair price, and its Swap
\* record, its BatchSwap aggregation, the pool and vault counters and the two
\* PoolToken balances are written as for any swap.
C14_ZeroSwapKeepsBookkeeping ==
  ZeroAmountSwap =>
    LET id == <<last.tx, last.logIndex>>
        p == last.poolId
        fee == (C10_UsdValue * pre.pool[p].swapFee) \div UNIT
        before == IF last.tx \in DOMAIN pre.batchSwap
                    THEN pre.batchSwap[last.tx].swaps ELSE <<>>
    IN /\ last.outcome = "zero"
       /\ store.tradePairPrice = pre.tradePairPrice
       /\ id \notin DOMAIN pre.swap
       /\ id \in DOMAIN store.swap
       /\ store.swap[id].tokenIn = last.tokenIn
       /\ store.swap[id].tokenOut = last.tokenOut
       /\ store.swap[id].tokenAmountIn = Scaled(last.amountIn, last.tokenIn)
       /\ store.swap[id].tokenAmountOut = Scaled(last.amountOut, last.tokenOut)
       /\ store.batchSwap[last.tx].swaps = Append(before, id)
       /\ store.batchSwap[last.tx].tokenOut = last.tokenOut
       /\ store.batchSwap[last.tx].tokenAmountOut =
            SumAmountOut(store, {x \in SwapsOfTx(store, last.tx) :
                                   store.swap[x].tokenOut = last.tokenOut})
       /\ store.batchSwap[last.tx].tokenAmountIn =
            SumAmountIn(store, {x \in SwapsOfTx(store, last.tx) :
                                  store.swap[x].tokenIn = store.batchSwap[last.tx].tokenIn})
       /\ store.pool[p].swapsCount = pre.pool[p].swapsCount + 1
       /\ store.pool[p].totalSwapVolume = pre.pool[p].totalSwapVolume + C10_UsdValue
       /\ store.pool[p].totalSwapFee = pre.pool[p].totalSwapFee + fee
       /\ store.balancer["2"].totalSwapCount = pre.balancer["2"].totalSwapCount + 1
       /\ store.balancer["2"].totalSwapVolume
            = pre.balancer["2"].totalSwapVolume + C10_UsdValue
       /\ store.balancer["2"].totalSwapFee = pre.balancer["2"].totalSwapFee + fee
       /\ \A x \in DOMAIN store.poolToken :
            store.poolToken[x].balance = pre.poolToken[x].balance + C4_Delta(x)

\* a swap with a zero inbound amount has moved the outbound balance and the
\* volume counters, after a swap of the same pair that wrote a trade-pair
\* price
C14_Witness ==
  /\ ZeroAmountSwap
  /\ last.amountOut > 0
  /\ C10_UsdValue > 0
  /\ store.poolToken[<<last.poolId, last.tokenOut>>].balance
       < pre.poolToken[<<last.poolId, last.tokenOut>>].balance
  /\ \E k \in DOMAIN pre.tradePairPrice : k[1] = {last.tokenIn, last.tokenOut}

\* C15: no event changes the price or the amount of a TokenPrice record
\* that the store already held.
C15_TokenPriceAppendOnly ==
  \A k \in DOMAIN pre.tokenPrice :
    /\ k \in DOMAIN store.tokenPrice
    /\ store.tokenPrice[k].price = pre.tokenPrice[k].price
    /\ store.tokenPrice[k].amount = pre.tokenPrice[k].amount

\* C16: for every pair for which a swap has recorded a TokenPrice, the
\* LatestPrice row of the pair exists and holds the price and the block of
\* the TokenPrice recorded last for the pair.
C16_LatestPriceIsLastRecorded ==
  \A k \in DOMAIN recorded :
    /\ k \in DOMAIN store.latestPrice
    /\ store.latestPrice[k].price = recorded[k].price
    /\ store.latestPrice[k].block = recorded[k].block

\* a swap that reached the price capture
PricedSwap == last.kind = "swap" /\ last.outcome = "swap"

\* the two legs of the last swap: <<this leg's token, this leg's amount,
\* the other leg's token, the other leg's amount>>
SwapLegs ==
  {<<last.tokenIn, Scaled(last.amountIn, last.tokenIn),
     last.tokenOut, Scaled(last.amountOut, last.tokenOut)>>,
   <<last.tokenOut, Scaled(last.amountOut, last.tokenOut),
     last.tokenIn, Scaled(last.amountIn, last.tokenIn)>>}

LegTokenPrice(leg) ==
  store.tokenPrice[getTokenPriceId(last.poolId, leg[3], leg[1], last.block)]

LegRecorded(leg) ==
  /\ getTokenPriceId(last.poolId, leg[3], leg[1], last.block) \in DOMAIN store.tokenPrice
  /\ LegTokenPrice(leg).pricingAsset = leg[1]
  /\ LegTokenPrice(leg).asset = leg[3]

\* C17 as stated: for each leg of a swap whose token is a pricing asset, the
\* TokenPrice recorded has this leg's token as pricingAsset, the other leg's
\* token as asset, and the other leg's amount over this leg's amount as price.
C17_RateOtherOverThis ==
  PricedSwap =>
    \A leg \in SwapLegs :
      isPricingAsset(leg[1]) =>
        LegRecorded(leg) /\ LegTokenPrice(leg).price = div(leg[4], leg[2])

\* C17 amended: for each leg of a swap whose token is a pricing asset, the
\* TokenPrice recorded has this leg's token as pricingAsset, the other leg's
\* token as asset, and this leg's amount over the other leg's amount as
\* price: the price of one unit of the asset in the pricing asset.
C17_RateThisOverOther ==
  PricedSwap =>
    \A leg \in SwapLegs :
      isPricingAsset(leg[1]) =>
        LegRecorded(leg) /\ LegTokenPrice(leg).price = div(leg[2], leg[4])

\* a swap between two pricing assets whose amounts differ has recorded a
\* price in each direction
C17_Witness ==
  /\ PricedSwap
  /\ \A leg \in SwapLegs :
       /\ isPricingAsset(leg[1])
       /\ LegRecorded(leg)
       /\ div(leg[2], leg[4]) # div(leg[4], leg[2])
       /\ LegTokenPrice(leg).price = div(leg[2], leg[4])

\* a join or an exit that was handled to its end
JoinOrExitHandled == last.kind = "balance" /\ last.outcome \in {"join", "exit"}

\* the k-th updatePoolLiquidity attempt of the event converted to USD
C18_Succeeded(k) == C2_UsdRate(calls[k].before, calls[k].pricingAsset) # Null

\* C18: in a join or an exit no updatePoolLiquidity attempt follows one that
\* converted to USD, and the pool's liquidity at the end of the event is the
\* one left by the first attempt, in tokensList order, that converted.
C18_StopsAtFirstSuccess ==
  JoinOrExitHandled =>
    \A k \in 1..Len(calls) :
      (C18_Succeeded(k) /\ \A j \in 1..(k - 1) : ~C18_Succeeded(j))
        => /\ k = Len(calls)
           /\ store.pool[last.poolId].liquidity
                = calls[k].after.pool[last.poolId].liquidity

\* C19: every updatePoolLiquidity call on a pool of at least 2 tokens,
\* whether or not its pricing asset has a USD route, leaves a
\* PoolHistoricalLiquidity record for (poolId, pricingAsset, block) whose
\* poolLiquidity is the pool value in the pricing asset, each other token
\* being priced by its TokenPrice at this block if there is one and by its
\* LatestPrice row otherwise.
C19_HistoricalLiquidityWritten ==
  \A k \in 1..Len(calls) :
    LET call == calls[k]
        phlId == <<call.poolId, call.pricingAsset, call.block>>
    IN call.before.pool[call.poolId].tokensCount >= 2
         => /\ phlId \in DOMAIN call.after.phl
            /\ call.after.phl[phlId].poolId = call.poolId
            /\ call.after.phl[phlId].pricingAsset = call.pricingAsset
            /\ call.after.phl[phlId].block = call.block
            /\ call.after.phl[phlId].poolLiquidity = C2_PoolValue(call.before, call, 1)

\* a call that found, for a token the pool holds, a TokenPrice at this block
\* and a LatestPrice row with another price, and wrote a record that did not
\* exist
C19_Witness ==
  \E k \in 1..Len(calls) :
    LET call == calls[k]
        s == call.before
        list == s.pool[call.poolId].tokensList
        phlId == <<call.poolId, call.pricingAsset, call.block>>
    IN /\ phlId \notin DOMAIN s.phl
       /\ phlId \in DOMAIN call.after.phl
       /\ call.after.phl[phlId].poolLiquidity > 0
       /\ \E i \in 1..Len(list) :
            /\ list[i] # call.pricingAsset
            /\ C2_HasTokenPrice(s, call, list[i])
            /\ C2_HasLatestPrice(s, call, list[i])
            /\ s.tokenPrice[<<call.poolId, list[i], call.pricingAsset, call.block>>].price
                 # s.latestPrice[<<list[i], call.pricingAsset>>].price
            /\ s.poolToken[<<call.poolId, list[i]>>].balance > 0

\* the stores that differ from s only in the LatestPrice rows from
\* pricingAsset to the USD anchors: the rows removed, or present with
\* another price
C20_AnchorRow(pricingAsset, anchor, price) ==
  [asset |-> pricingAsset, pricingAsset |-> anchor, price |-> price,
   block |-> 1, poolId |-> "p1"]

C20_Variants(s, pricingAsset) ==
  {[s EXCEPT !.latestPrice = Remove(Remove(@, <<pricingAsset, USDC>>), <<pricingAsset, DAI>>)]}
  \cup {[s EXCEPT !.latestPrice = Save(@, <<pricingAsset, anchor>>,
                                        C20_AnchorRow(pricingAsset, anchor, price))] :
          anchor \in {USDC, DAI}, price \in {0, 2 * UNIT}}

\* C20: an updatePoolLiquidity call whose pricing asset is USD-stable leaves
\* the pool's liquidity equal to the pool value in the pricing asset, and
\* leaves the same liquidity from any store that differs only in the
\* LatestPrice rows from the pricing asset to USDC and DAI.
C20_StableIgnoresAnchorRows ==
  \A k \in 1..Len(calls) :
    LET call == calls[k]
        p == call.poolId
    IN isUSDStable(call.pricingAsset)
         => /\ call.after.pool[p].liquidity = C2_PoolValue(call.before, call, 1)
            /\ \A v \in C20_Variants(call.before, call.pricingAsset) :
                 updatePoolLiquidity([s |-> v, calls |-> <<>>], p, call.block,
                                     call.pricingAsset).s.pool[p].liquidity
                   = call.after.pool[p].liquidity

\* a call for a USD-stable pricing asset that changed the liquidity to a
\* positive pool value to which a priced token of the pool contributes
C20_Witness ==
  \E k \in 1..Len(calls) :
    LET call == calls[k]
        s == call.before
        p == call.poolId
        list == s.pool[p].tokensList
    IN /\ isUSDStable(call.pricingAsset)
       /\ call.after.pool[p].liquidity > 0
       /\ call.after.pool[p].liquidity # s.pool[p].liquidity
       /\ s.poolToken[<<p, call.pricingAsset>>].balance > 0
       /\ call.after.pool[p].liquidity # s.poolToken[<<p, call.pricingAsset>>].balance
       /\ C20_Variants(s, call.pricingAsset) # {s}

\* the tokenIn of the batch of the last swap once the swap is aggregated:
\* the tokenIn of the first swap of the transaction
C21_BatchTokenIn ==
  IF last.tx \in DOMAIN pre.batchSwap THEN pre.batchSwap[last.tx].tokenIn
  ELSE last.tokenIn

\* the last event is a swap on a known pool that closes a round trip: the
\* batch's tokenIn is the swap's tokenOut
RoundTripSwap ==
  /\ last.kind = "swap"
  /\ last.poolId \in DOMAIN pre.pool
  /\ C21_BatchTokenIn = last.tokenOut

\* C21: a swap changes a TradePair or a trade-pair snapshot only if the
\* tokenIn and the tokenOut of its batch differ once it is aggregated; a
\* swap that closes a round trip leaves every TradePair and every trade-pair
\* snapshot as it was.
C21_TradePairsOnlyWhenTokensDiffer ==
  /\ RoundTripSwap
       => /\ store.tradePair = pre.tradePair
          /\ store.tradePairSnapshot = pre.tradePairSnapshot
  /\ (/\ last.kind = "swap"
      /\ \/ store.tradePair # pre.tradePair
         \/ store.tradePairSnapshot # pre.tradePairSnapshot)
       => /\ C21_BatchTokenIn # last.tokenOut
          /\ store.batchSwap[last.tx].tokenIn # store.batchSwap[last.tx].tokenOut

\* a swap with a USD value has closed a round trip and was handled to its
\* end, in a store that holds the TradePair of its two tokens
C21_Witness ==
  /\ RoundTripSwap
  /\ SwapHandled
  /\ C10_UsdValue > 0
  /\ store.batchSwap[last.tx].tokenIn = store.batchSwap[last.tx].tokenOut
  /\ store.pool[last.poolId].totalSwapVolume > pre.pool[last.poolId].totalSwapVolume
  /\ {last.tokenIn, last.tokenOut} \in DOMAIN pre.tradePair

\* the last event was a PoolCreated for a pool id that had a Pool record
RepeatedPoolCreated == last.kind = "create" /\ last.poolId \in DOMAIN pre.pool

\* C22: no Balancer record other than "2" exists; the record exists exactly
\* when a pool has been created; its poolCount is the number of Pool
\* records; a PoolCreated event for a known pool id leaves poolCount as it
\* was.
C22_PoolCountIsNumberOfPools ==
  /\ DOMAIN store.balancer \subseteq {"2"}
  /\ Exists(store.balancer, "2") <=> DOMAIN store.pool # {}
  /\ Exists(store.balancer, "2")
       => store.balancer["2"].poolCount = Cardinality(DOMAIN store.pool)
  /\ RepeatedPoolCreated
       => /\ store.balancer["2"].poolCount = pre.balancer["2"].poolCount
          /\ DOMAIN store.pool = DOMAIN pre.pool

\* a PoolCreated event was repeated for one of two known pools after a
\* vault event
C22_Witness ==
  /\ RepeatedPoolCreated
  /\ nEvents > 0
  /\ Cardinality(DOMAIN store.pool) = 2
  /\ store.balancer["2"].poolCount = 2

\* updatePoolLiquidity returns before it writes anything
C23_Guarded(s, poolId) ==
  \/ poolId \notin DOMAIN s.pool
  \/ s.pool[poolId].tokensCount < 2
  \/ Len(s.pool[poolId].tokensList) = 0

\* the current store, and the current store with the token list of a pool
\* emptied
C23_Stores ==
  {store} \cup {[store EXCEPT !.pool[p].tokensList = <<>>] : p \in DOMAIN store.pool}

\* C23: updatePoolLiquidity on a missing pool, on a pool of fewer than 2
\* tokens or on a pool with an empty token list returns the store it was
\* given: no PoolHistoricalLiquidity record, no LatestPrice row, the pool's
\* liquidity and Balancer.totalLiquidity unchanged; a join or an exit on
\* such a pool leaves them unchanged too.
C23_GuardedCallIsNoOp ==
  /\ \A s \in C23_Stores, p \in PoolIds \cup {UnindexedPool}, pricingAsset \in Tokens :
       C23_Guarded(s, p)
         => updatePoolLiquidity([s |-> s, calls |-> <<>>], p, clock.block, pricingAsset)
              = [s |-> s, calls |-> <<>>]
  /\ (BalanceChangeHandled /\ C23_Guarded(pre, last.poolId))
       => /\ calls = <<>>
          /\ store.phl = pre.phl
          /\ store.latestPrice = pre.latestPrice
          /\ store.pool[last.poolId].liquidity = pre.pool[last.poolId].liquidity
          /\ TotalLiquidity(store) = TotalLiquidity(pre)

\* a join was handled on a pool whose only token is a pricing asset, while
\* another pool has a liquidity
C23_Witness ==
  /\ BalanceChangeHandled
  /\ Len(pre.pool[last.poolId].tokensList) = 1
  /\ isPricingAsset(pre.pool[last.poolId].tokensList[1])
  /\ store.poolToken[<<last.poolId, pre.pool[last.poolId].tokensList[1]>>].balance > 0
  /\ TotalLiquidity(store) > 0

\* the legs of the last swap whose token is a pricing asset, tokenIn first:
\* <<this leg's token, the other leg's token>>
C24_PricingLegs ==
  SelectSeq(<<<<last.tokenIn, last.tokenOut>>, <<last.tokenOut, last.tokenIn>>>>,
            LAMBDA leg : isPricingAsset(leg[1]))

C24_TokenPriceIds ==
  {getTokenPriceId(last.poolId, C24_PricingLegs[i][2], C24_PricingLegs[i][1], last.block) :
     i \in 1..Len(C24_PricingLegs)}

\* the TokenPrice ids the last event created or wrote another record under
C24_Written ==
  {k \in DOMAIN store.tokenPrice :
     k \notin DOMAIN pre.tokenPrice \/ store.tokenPrice[k] # pre.tokenPrice[k]}

\* C24: a swap with non-zero amounts records one TokenPrice per leg whose
\* token is a pricing asset (two between two pricing assets, one per
\* direction; one with one such leg; none with none) and no other, and
\* calls updatePoolLiquidity once per such leg, after the leg's TokenPrice is
\* recorded, with tokenIn as pricing asset before tokenOut.
C24_OneTokenPricePerPricingLeg ==
  PricedSwap =>
    /\ Cardinality(C24_TokenPriceIds) = Len(C24_PricingLegs)
    /\ C24_TokenPriceIds \subseteq DOMAIN store.tokenPrice
    /\ C24_Written \subseteq C24_TokenPriceIds
    /\ Len(calls) = Len(C24_PricingLegs)
    /\ \A i \in 1..Len(calls) :
         /\ calls[i].poolId = last.poolId
         /\ calls[i].block = last.block
         /\ calls[i].pricingAsset = C24_PricingLegs[i][1]
         /\ getTokenPriceId(last.poolId, C24_PricingLegs[i][2], C24_PricingLegs[i][1],
                            last.block) \in DOMAIN calls[i].before.tokenPrice

\* a swap between two pricing assets has recorded two TokenPrice, in a
\* store where a swap with one pricing-asset leg or with none came before
C24_Witness ==
  /\ PricedSwap
  /\ Len(C24_PricingLegs) = 2
  /\ Cardinality(C24_Written) = 2
  /\ Len(calls) = 2
  /\ \E id \in DOMAIN pre.swap :
       ~isPricingAsset(pre.swap[id].tokenIn) \/ ~isPricingAsset(pre.swap[id].tokenOut)

\* how many times a swap id occurs in the swaps list of a BatchSwap
C25_Occurrences(id, b) ==
  Cardinality({i \in 1..Len(store.batchSwap[b].swaps) : store.batchSwap[b].swaps[i] = id})

\* C25: every Swap record's id occurs once in the swaps list of the BatchSwap
\* keyed by the swap's transaction (swap.batch) and in no other list; every
\* list holds ids of Swap records, in the order the swaps were processed: a
\* handled swap is appended to the list, which is in log order.
C25_SwapsListedOnceInOrder ==
  /\ \A id \in DOMAIN store.swap :
       /\ store.swap[id].batch = id[1]
       /\ store.swap[id].batch \in DOMAIN store.batchSwap
       /\ \A b \in DOMAIN store.batchSwap :
            C25_Occurrences(id, b) = IF b = store.swap[id].batch THEN 1 ELSE 0
  /\ \A b \in DOMAIN store.batchSwap :
       LET swaps == store.batchSwap[b].swaps
       IN /\ \A i \in 1..Len(swaps) : swaps[i] \in DOMAIN store.swap
          /\ \A i, j \in 1..Len(swaps) : i < j => swaps[i][2] < swaps[j][2]
  /\ SwapHandled
       => store.batchSwap[last.tx].swaps
            = Append(IF last.tx \in DOMAIN pre.batchSwap
                       THEN pre.batchSwap[last.tx].swaps ELSE <<>>,
                     <<last.tx, last.logIndex>>)

\* a second swap has joined the batch of its transaction while the store
\* holds the batch of another transaction
C25_Witness ==
  /\ SwapHandled
  /\ Len(store.batchSwap[last.tx].swaps) = 2
  /\ Cardinality(DOMAIN store.batchSwap) = 2
  /\ Cardinality(DOMAIN store.swap) = 3

\* the sum of the values of a function over a set of its arguments
RECURSIVE C26_Sum(_, _)
C26_Sum(f, ids) ==
  IF ids = {} THEN 0
  ELSE LET id == CHOOSE x \in ids : TRUE
       IN f[id] + C26_Sum(f, ids \ {id})

\* C26: Balancer.totalSwapCount is the sum of the pools' swapsCount and the
\* number of Swap records; Balancer.totalSwapVolume and totalSwapFee are the
\* sums of the pools' totalSwapVolume and totalSwapFee; without a Balancer
\* record there is no Swap record.
C26_VaultTotalsAreSums ==
  LET pools == DOMAIN store.pool
  IN IF Exists(store.balancer, "2")
       THEN /\ store.balancer["2"].totalSwapCount
                 = C26_Sum([p \in pools |-> store.pool[p].swapsCount], pools)
            /\ store.balancer["2"].totalSwapCount = Cardinality(DOMAIN store.swap)
            /\ store.balancer["2"].totalSwapVolume
                 = C26_Sum([p \in pools |-> store.pool[p].totalSwapVolume], pools)
            /\ store.balancer["2"].totalSwapFee
                 = C26_Sum([p \in pools |-> store.pool[p].totalSwapFee], pools)
       ELSE DOMAIN store.swap = {} /\ pools = {}

\* two pools with different fees have each handled a swap with a volume
C26_Witness ==
  /\ SwapHandled
  /\ store.balancer["2"].totalSwapCount = 2
  /\ \E p, q \in DOMAIN store.pool :
       /\ p # q
       /\ store.pool[p].swapsCount = 1
       /\ store.pool[q].swapsCount = 1
       /\ store.pool[p].totalSwapVolume > 0
       /\ store.pool[q].totalSwapVolume > 0
       /\ store.pool[p].totalSwapFee # store.pool[q].totalSwapFee
       /\ store.balancer["2"].totalSwapFee
            = store.pool[p].totalSwapFee + store.pool[q].totalSwapFee

\* C27: in every state with a Pool record the Balancer record "2" exists,
\* and it existed in the store that each updatePoolLiquidity call of the
\* last event and each swap that passed the pool check loaded it from.
C27_VaultExistsWhenLoaded ==
  /\ DOMAIN store.pool # {} => Exists(store.balancer, "2")
  /\ \A k \in 1..Len(calls) : Exists(calls[k].before.balancer, "2")
  /\ (last.kind = "swap" /\ last.poolId \in DOMAIN pre.pool) => Exists(pre.balancer, "2")

\* a swap has loaded the vault, and so has an updatePoolLiquidity call it
\* made
C27_Witness ==
  /\ SwapHandled
  /\ Len(calls) > 0
  /\ Exists(pre.balancer, "2")
  /\ store.balancer["2"].totalSwapCount = pre.balancer["2"].totalSwapCount + 1
  /\ store.balancer["2"].totalLiquidity # pre.balancer["2"].totalLiquidity

\* the LatestPrice rows the last event created or changed
C28_Changed ==
  {k \in DOMAIN store.latestPrice :
     k \notin DOMAIN pre.latestPrice \/ store.latestPrice[k] # pre.latestPrice[k]}

\* C28: events come in non-decreasing block order; no event removes a
\* LatestPrice row or lowers its block, no row is stamped with a block after
\* the current one, and a join or an exit changes the row of (token,
\* pricingAsset) only if a TokenPrice of its pool for (token, pricingAsset)
\* at the event's block was in the store before the event.
C28_LatestPriceBlockMonotone ==
  /\ last.block <= clock.block
  /\ DOMAIN pre.latestPrice \subseteq DOMAIN store.latestPrice
  /\ \A k \in DOMAIN pre.latestPrice :
       store.latestPrice[k].block >= pre.latestPrice[k].block
  /\ \A k \in DOMAIN store.latestPrice : store.latestPrice[k].block <= clock.block
  /\ last.kind = "balance"
       => \A k \in C28_Changed :
            getTokenPriceId(last.poolId, k[1], k[2], last.block) \in DOMAIN pre.tokenPrice

\* a join or an exit has changed a LatestPrice row that another pool wrote
C28_Witness ==
  /\ BalanceChangeHandled
  /\ \E k \in C28_Changed :
       /\ k \in DOMAIN pre.latestPrice
       /\ pre.latestPrice[k].poolId # last.poolId
       /\ store.latestPrice[k].poolId = last.poolId
       /\ store.latestPrice[k].price # pre.latestPrice[k].price
       /\ store.latestPrice[k].block = last.block

====
